---- MODULE Spec2Model ----
(***************************************************************************)
(* The scheduler of the serval agent: the HTTP handlers of                 *)
(* agent/src/api/v1/scheduler.rs acting on the process-wide job queue      *)
(* JOBS (a Mutex<JobQueue>).  Each inbound request runs as its own task.   *)
(* A handler takes the JOBS mutex in its first statement and holds it      *)
(* until it returns, with no await in between, so a handler body is one    *)
(* atomic step; requests that have been accepted but whose handler has not *)
(* yet run are counted in `inflight` and are served in any order.          *)
(*                                                                         *)
(* The JobQueue and Job types live in the utils crate; their operations    *)
(* (enqueue, claim, get_job, get_job_mut, mark_complete) are modelled from *)
(* the specification's section 4.4.                                        *)
(***************************************************************************)
EXTENDS Integers, Sequences, FiniteSets, TLC

\* ------------------------------------------------------------------ bounds

\* Number of jobs that may be enqueued in one run.
MaxJobs == 2

\* Number of request tasks that may be in flight at the same time.
NumTasks == 2

\* ------------------------------------------------------------- value sets

\* Uuid values.  The k-th Uuid::new_v4() of a run is called k; one more id
\* than can ever be enqueued exists, so an id unknown to the queue always does.
JobIds == 1 .. (MaxJobs + 1)

NoId == 0

\* Option::None for a claimant.
NoPeer == "none"

\* Request bodies: the empty body and a non-empty one.
Payloads == {<< >>, <<104, 105>>}

\* The (:name, body) pairs enqueue requests carry.
EnqueueRequests == {<<"echo", <<104, 105>> >>, <<"fib", << >> >>}

\* utils::structs::JobStatus
JobStatus == {"Pending", "Claimed", "Running", "Completed", "Failed", "Cancelled"}

Terminal == {"Completed", "Failed", "Cancelled"}

\* The routes of mount().
Ops == {"enqueue", "claim", "complete", "status", "tickle"}

\* axum::http::StatusCode values the handlers produce.
OK == 200
BAD_REQUEST == 400
NOT_FOUND == 404
INTERNAL_SERVER_ERROR == 500

VARIABLES
    JOBS,       \* the job queue: [pending: Seq(JobId), by_id: JobId -> Job]
    inflight,   \* per route: requests accepted whose handler has not run yet
    req,        \* the request served last
    resp,       \* the response to it
    enqueued,   \* history: job ids in the order enqueue stored them
    claimed,    \* history: job ids in the order claim returned them
    batch       \* scenario: the claim requests accepted together, if any

\* The relay of scheduler requests between the peers of a mesh.
VARIABLES
    roles,      \* per peer: whether it runs the scheduler (mount) or relays (mount_proxy)
    advertised, \* per peer: whether the membership view shows it with the Scheduler role
    rq,         \* the scheduler request under way
    answer,     \* the response the client got to the last request
    counters    \* metrics: counter name -> count

\* The agent's start-up (main): binding the HTTP server and advertising it.
VARIABLES
    PORT,            \* the PORT environment variable
    storage_role,    \* STORAGE_ROLE says to store blobs (blob_path is Some)
    should_run_jobs, \* RUNNER_ROLE says to run jobs
    in_use,          \* ports other processes hold
    apc,             \* where main is
    port,            \* main's `port`
    bound,           \* the port the HTTP server is bound to
    adverts,         \* the advertise_service calls that succeeded
    exit_code,       \* the process's exit code, once it has ended
    jobs_cell,       \* whether the JOBS cell holds a queue
    handler          \* how the last scheduler handler run on this agent ended

\* The client's discovery of a node (maybe_find_peer).
VARIABLES
    override_url, \* whether the override environment variable is set
    view,         \* per peer: how the membership view shows it
    cpc,          \* where maybe_find_peer is
    member,       \* whether the client is a member of the mesh
    joined,       \* history: whether the client has joined the mesh
    result,       \* maybe_find_peer's `result`
    returned,     \* what maybe_find_peer returned to its caller
    outcome,      \* history: how the client's main ended
    cli_exit      \* the client's exit code, once it has ended

\* The client's peer module (peers.rs): the node address found once.
VARIABLES
    SERVAL_NODE_URL,  \* the override environment variable
    SERVAL_NODE_ADDR, \* the cell: the node address, once found
    tpc,              \* per task calling build_url: where it is
    initializer,      \* the task whose initializing future runs, if any
    url,              \* per task: the address its last URL was built from
    discoveries       \* history: how many discoveries have been performed

schedVars == <<JOBS, inflight, req, resp, enqueued, claimed, batch>>

proxyVars == <<roles, advertised, rq, answer, counters>>

\* What the scheduler's handlers leave alone.
\* What main's bind loop and advertisements leave alone.
serveVars == <<jobs_cell, handler>>

agentVars == <<PORT, storage_role, should_run_jobs, in_use, apc, port, bound, adverts, exit_code,
               serveVars>>

\* What maybe_find_peer leaves alone.
mainVars == <<outcome, cli_exit>>

cliVars == <<override_url, view, cpc, member, joined, result, returned, mainVars>>

peersVars == <<SERVAL_NODE_URL, SERVAL_NODE_ADDR, tpc, initializer, url, discoveries>>

otherVars == <<proxyVars, agentVars, cliVars, peersVars>>

vars == <<schedVars, otherVars>>

\* ------------------------------------------------------ the job queue (utils)

\* Job as constructed by enqueue.
NewJob(name, input) ==
    [name |-> name, input |-> input, output |-> << >>,
     status |-> "Pending", claimant |-> NoPeer]

\* JobQueue::new(): empty pending sequence, no jobs.
EmptyQueue == [pending |-> << >>, by_id |-> << >>]

Known(q) == DOMAIN q.by_id

\* JobQueue::enqueue(name, input), `id` being the fresh JobId.
Enqueue(q, id, name, input) ==
    [pending |-> Append(q.pending, id),
     by_id   |-> [j \in Known(q) \cup {id} |->
                    IF j = id THEN NewJob(name, input) ELSE q.by_id[j]]]

\* JobQueue::claim(): the id it returns, NoId for None.
ClaimHead(q) == IF q.pending = << >> THEN NoId ELSE Head(q.pending)

\* JobQueue::claim(): the queue it leaves.  `peer` is the caller's PeerId,
\* NoPeer when the caller is not known.
Claim(q, peer) ==
    IF q.pending = << >> THEN q
    ELSE [pending |-> Tail(q.pending),
          by_id   |-> [q.by_id EXCEPT ![Head(q.pending)] =
                         [@ EXCEPT !.status = "Claimed", !.claimant = peer]]]

\* JobQueue::get_job / get_job_mut: Some iff the id is known.
GetJob(q, id) == id \in Known(q)

\* Job::mark_complete(status, output) is Ok iff the job is Claimed or Running.
CanComplete(job) == job.status \in {"Claimed", "Running"}

\* Job::mark_complete(status, output), the Ok case.
MarkComplete(job, status, output) ==
    [job EXCEPT !.status = status, !.output = output, !.claimant = NoPeer]

\* ------------------------------------------------------------ mesh values

\* Number of scheduler requests clients send to the mesh in one run.
MaxRequests == 2

\* PeerIds (instance_id) of the agents of the mesh.
Peers == {"A", "B", "C"}

\* Request paths under /v1/scheduler/.
Paths == {"/v1/scheduler/claim", "/v1/scheduler/enqueue/x"}

SERVICE_UNAVAILABLE == 503
LOOP_DETECTED == 508

\* The body proxy() sends with its 503.
ProxyUnavailableBody == "Peer with the job runner role not available"

\* The name proxy() passes to increment_counter! for every relay: a string
\* literal, which the macro does not interpolate.
ProxyCounter == "proxy:scheduler:{path}"

\* proxy:<role>:<path> with the role and path of a request.
PathCounter(path) == IF path = "/v1/scheduler/claim"
                     THEN "proxy:scheduler:/v1/scheduler/claim"
                     ELSE "proxy:scheduler:/v1/scheduler/enqueue/x"

ErrorCounter == "proxy:error"

CounterNames == {ProxyCounter, ErrorCounter} \cup {PathCounter(p) : p \in Paths}

\* No request under way.  `chain` lists the peers the request has reached,
\* `relayed_by` is its X-Relayed-By header (NoPeer when absent), `from_client`
\* the header it had when the client sent it, `n` counts the requests sent.
NoRq == [stage |-> "none", chain |-> << >>, relayed_by |-> NoPeer, from_client |-> NoPeer,
         path |-> "", n |-> 0]

NoAnswer == [code |-> 0, body |-> "", by |-> NoPeer, why |-> "none", header |-> NoPeer]

\* ----------------------------------------------------------- agent values

\* Number of ports from 8100 upward that the model has.
NumPorts == 3

\* Where main starts to look for a free port.
BasePort == 8100

Ports == BasePort .. (BasePort + NumPorts - 1)

\* No port: Option<u16> None, and `port` before its first assignment.
NoPort == -1

\* What PORT may hold: unset, set to something that is no u16, set to 0, set
\* to a port.  `parsed` is what port_str.parse::<u16>().ok() gives.
PortSettings ==
    {[set |-> FALSE, parsed |-> NoPort], [set |-> TRUE, parsed |-> NoPort]}
    \cup {[set |-> TRUE, parsed |-> n] : n \in {0} \cup Ports}

ServiceRole(service) ==
    CASE service = "serval_storage" -> {"Storage"}
      [] service = "serval_runner" -> {"Runner"}
      [] OTHER -> {}

\* ---------------------------------------------------------- client values

\* How the membership view can show a peer: not at all, with the role looked
\* for and an address, with the role but no address, or with other roles.
Shown == {"absent", "runner", "runner_no_address", "other"}

\* A Result<String>: Ok(val) or Err(val).
Ok(val) == [ok |-> TRUE, val |-> val]

Err(val) == [ok |-> FALSE, val |-> val]

NoResult == Err("none")

\* No exit code: the process runs.
NoExit == -1

\* The exit code of a Rust process whose main returns Err.
FAILURE == 1

\* The exit code of a process whose main returns Ok(()).
SUCCESS == 0

\* ------------------------------------------------------ peer module values

\* Number of tasks of the client process that call build_url.  Each is a task
\* of its own: a panic ends that task and no other.
NumCallers == 3

Callers == 1 .. NumCallers

NoCaller == 0

\* Socket addresses of nodes.
Addrs == {"10.0.0.1:8100", "10.0.0.2:8100"}

NoAddr == "none"

\* What SERVAL_NODE_URL may hold: nothing, something that is no socket
\* address, or a socket address.
Overrides == {"unset", "junk"} \cup Addrs

\* ------------------------------------------------------------- requests

NoReq == [op |-> "none", id |-> NoId, name |-> "", body |-> << >>, directed |-> "none"]

NoResp == [code |-> 0, job_id |-> NoId, name |-> "", input |-> << >>,
           status |-> "none", output |-> << >>]

\* No batch of claims has been accepted.
NoBatch == [n |-> 0, m |-> 0, base |-> 0]

Reply(code) == [NoResp EXCEPT !.code = code]

InFlight == inflight["enqueue"] + inflight["claim"] + inflight["complete"]
            + inflight["status"] + inflight["tickle"]

\* A request for route `op` is accepted and its handler task spawned.
Arrive(op) ==
    /\ InFlight < NumTasks
    /\ inflight' = [inflight EXCEPT ![op] = @ + 1]
    /\ UNCHANGED <<JOBS, req, resp, enqueued, claimed, batch>>
    /\ UNCHANGED otherVars

\* POST /v1/scheduler/enqueue/:name
ArriveEnqueue ==
    /\ Len(enqueued) + inflight["enqueue"] < MaxJobs
    /\ Arrive("enqueue")

\* POST /v1/scheduler/claim
ArriveClaim == Arrive("claim")

\* POST /v1/scheduler/:job_id/complete
ArriveComplete == Arrive("complete")

\* GET /v1/scheduler/:job_id/status
ArriveStatus == Arrive("status")

\* POST /v1/scheduler/:job_id/tickle
ArriveTickle == Arrive("tickle")

\* The handler of route `op` runs on request `r` and answers `a`.
Serve(op, r, a) ==
    /\ inflight[op] > 0
    /\ inflight' = [inflight EXCEPT ![op] = @ - 1]
    /\ req' = [r EXCEPT !.op = op]
    /\ resp' = a
    /\ UNCHANGED batch
    /\ UNCHANGED otherVars

\* ------------------------------------------------------------- handlers

enqueue_job ==
    /\ \E e \in EnqueueRequests :
         LET r == [NoReq EXCEPT !.name = e[1], !.body = e[2]]
             id == Len(enqueued) + 1
         IN  \/ /\ JOBS' = Enqueue(JOBS, id, r.name, r.body)
                /\ enqueued' = Append(enqueued, id)
                /\ Serve("enqueue", r, [Reply(OK) EXCEPT !.job_id = id])
             \/ /\ UNCHANGED <<JOBS, enqueued>>
                /\ Serve("enqueue", r, Reply(INTERNAL_SERVER_ERROR))
    /\ UNCHANGED claimed

\* claim_job as it would be if it read the head job without claiming it.
claim_job_peek ==
    /\ LET id == ClaimHead(JOBS) IN
         IF id = NoId
         THEN /\ UNCHANGED <<JOBS, claimed>>
              /\ Serve("claim", NoReq, Reply(NOT_FOUND))
         ELSE /\ UNCHANGED JOBS
              /\ claimed' = Append(claimed, id)
              /\ Serve("claim", NoReq,
                       [Reply(OK) EXCEPT !.job_id = id,
                                         !.name = JOBS.by_id[id].name,
                                         !.input = JOBS.by_id[id].input])
    /\ UNCHANGED enqueued

\* claim_job as it would be if, with nothing pending, it handed out again a
\* job that is still Claimed.
claim_job_resurface ==
    /\ LET stale == {j \in Known(JOBS) : JOBS.by_id[j].status = "Claimed"}
           id == IF JOBS.pending # << >> THEN Head(JOBS.pending)
                 ELSE IF stale # {} THEN CHOOSE j \in stale : TRUE
                 ELSE NoId
       IN
         IF id = NoId
         THEN /\ UNCHANGED <<JOBS, claimed>>
              /\ Serve("claim", NoReq, Reply(NOT_FOUND))
         ELSE /\ JOBS' = Claim(JOBS, NoPeer)
              /\ claimed' = Append(claimed, id)
              /\ Serve("claim", NoReq,
                       [Reply(OK) EXCEPT !.job_id = id,
                                         !.name = JOBS.by_id[id].name,
                                         !.input = JOBS.by_id[id].input])
    /\ UNCHANGED enqueued

\* claim_job as it would be if it took the job enqueued last.
claim_job_lifo ==
    /\ LET n == Len(JOBS.pending)
           id == IF n = 0 THEN NoId ELSE JOBS.pending[n]
       IN
         IF id = NoId
         THEN /\ UNCHANGED <<JOBS, claimed>>
              /\ Serve("claim", NoReq, Reply(NOT_FOUND))
         ELSE /\ JOBS' = [pending |-> SubSeq(JOBS.pending, 1, n - 1),
                          by_id   |-> [JOBS.by_id EXCEPT ![id] =
                                         [@ EXCEPT !.status = "Claimed"]]]
              /\ claimed' = Append(claimed, id)
              /\ Serve("claim", NoReq,
                       [Reply(OK) EXCEPT !.job_id = id,
                                         !.name = JOBS.by_id[id].name,
                                         !.input = JOBS.by_id[id].input])
    /\ UNCHANGED enqueued

\* claim_job as it would be if the response took its input from the job's
\* output field.
claim_job_swapped ==
    /\ LET id == ClaimHead(JOBS) IN
         IF id = NoId
         THEN /\ UNCHANGED <<JOBS, claimed>>
              /\ Serve("claim", NoReq, Reply(NOT_FOUND))
         ELSE /\ JOBS' = Claim(JOBS, NoPeer)
              /\ claimed' = Append(claimed, id)
              /\ Serve("claim", NoReq,
                       [Reply(OK) EXCEPT !.job_id = id,
                                         !.name = JOBS.by_id[id].name,
                                         !.input = JOBS.by_id[id].output])
    /\ UNCHANGED enqueued

claim_job ==
    /\ LET id == ClaimHead(JOBS) IN
         IF id = NoId
         THEN /\ UNCHANGED <<JOBS, claimed>>
              /\ Serve("claim", NoReq, Reply(NOT_FOUND))
         ELSE /\ JOBS' = Claim(JOBS, NoPeer)
              /\ claimed' = Append(claimed, id)
              /\ Serve("claim", NoReq,
                       [Reply(OK) EXCEPT !.job_id = id,
                                         !.name = JOBS.by_id[id].name,
                                         !.input = JOBS.by_id[id].input])
    /\ UNCHANGED enqueued

tickle_job ==
    /\ \E id \in JobIds : Serve("tickle", [NoReq EXCEPT !.id = id], Reply(OK))
    /\ UNCHANGED <<JOBS, enqueued, claimed>>

\* job_status as it would be if an unknown id were answered with a default
\* view and the lookup inserted the job it did not find.
job_status_default ==
    /\ \E id \in JobIds :
         LET r == [NoReq EXCEPT !.id = id] IN
         IF ~GetJob(JOBS, id)
         THEN /\ JOBS' = [JOBS EXCEPT !.by_id =
                            [j \in Known(JOBS) \cup {id} |->
                               IF j = id THEN NewJob("", << >>) ELSE JOBS.by_id[j]]]
              /\ Serve("status", r, [Reply(OK) EXCEPT !.status = "Pending"])
         ELSE /\ UNCHANGED JOBS
              /\ Serve("status", r,
                       [Reply(OK) EXCEPT !.status = JOBS.by_id[id].status,
                                         !.output = JOBS.by_id[id].output])
    /\ UNCHANGED <<enqueued, claimed>>

\* job_status as it would be if reading a job's result also took it out of
\* the job.
job_status_take ==
    /\ \E id \in JobIds :
         LET r == [NoReq EXCEPT !.id = id] IN
         IF ~GetJob(JOBS, id)
         THEN /\ UNCHANGED JOBS
              /\ Serve("status", r, Reply(NOT_FOUND))
         ELSE /\ JOBS' = [JOBS EXCEPT !.by_id[id].output = << >>]
              /\ Serve("status", r,
                       [Reply(OK) EXCEPT !.status = JOBS.by_id[id].status,
                                         !.output = JOBS.by_id[id].output])
    /\ UNCHANGED <<enqueued, claimed>>

job_status ==
    /\ \E id \in JobIds :
         LET r == [NoReq EXCEPT !.id = id] IN
         IF ~GetJob(JOBS, id)
         THEN Serve("status", r, Reply(NOT_FOUND))
         ELSE Serve("status", r,
                    [Reply(OK) EXCEPT !.status = JOBS.by_id[id].status,
                                      !.output = JOBS.by_id[id].output])
    /\ UNCHANGED <<JOBS, enqueued, claimed>>

\* complete_job as it would be if it did not look at the job's status.
complete_job_unchecked ==
    /\ \E id \in JobIds, b \in Payloads, d \in {"Completed", "Failed"} :
         LET r == [NoReq EXCEPT !.id = id, !.body = b, !.directed = d] IN
         IF ~GetJob(JOBS, id)
         THEN /\ UNCHANGED JOBS
              /\ Serve("complete", r, Reply(NOT_FOUND))
         ELSE /\ JOBS' = [JOBS EXCEPT !.by_id[id] =
                            MarkComplete(@, "Completed", b)]
              /\ Serve("complete", r, Reply(OK))
    /\ UNCHANGED <<enqueued, claimed>>

\* complete_job as it would be if a job already in a terminal status could be
\* completed again.
complete_job_again ==
    /\ \E id \in JobIds, b \in Payloads, d \in {"Completed", "Failed"} :
         LET r == [NoReq EXCEPT !.id = id, !.body = b, !.directed = d] IN
         IF ~GetJob(JOBS, id)
         THEN /\ UNCHANGED JOBS
              /\ Serve("complete", r, Reply(NOT_FOUND))
         ELSE IF CanComplete(JOBS.by_id[id]) \/ JOBS.by_id[id].status \in Terminal
         THEN /\ JOBS' = [JOBS EXCEPT !.by_id[id] =
                            MarkComplete(@, "Completed", b)]
              /\ Serve("complete", r, Reply(OK))
         ELSE /\ UNCHANGED JOBS
              /\ Serve("complete", r, Reply(BAD_REQUEST))
    /\ UNCHANGED <<enqueued, claimed>>

\* complete_job as it would be if it stored the output before the transition
\* was checked.
complete_job_store_first ==
    /\ \E id \in JobIds, b \in Payloads, d \in {"Completed", "Failed"} :
         LET r == [NoReq EXCEPT !.id = id, !.body = b, !.directed = d] IN
         IF ~GetJob(JOBS, id)
         THEN /\ UNCHANGED JOBS
              /\ Serve("complete", r, Reply(NOT_FOUND))
         ELSE IF CanComplete(JOBS.by_id[id])
         THEN /\ JOBS' = [JOBS EXCEPT !.by_id[id] =
                            MarkComplete(@, "Completed", b)]
              /\ Serve("complete", r, Reply(OK))
         ELSE /\ JOBS' = [JOBS EXCEPT !.by_id[id].output = b]
              /\ Serve("complete", r, Reply(BAD_REQUEST))
    /\ UNCHANGED <<enqueued, claimed>>

\* `directed` is the outcome the runner has to report; the route carries the
\* output bytes only and the handler passes JobStatus::Completed.
complete_job ==
    /\ \E id \in JobIds, b \in Payloads, d \in {"Completed", "Failed"} :
         LET r == [NoReq EXCEPT !.id = id, !.body = b, !.directed = d] IN
         IF ~GetJob(JOBS, id)
         THEN /\ UNCHANGED JOBS
              /\ Serve("complete", r, Reply(NOT_FOUND))
         ELSE IF CanComplete(JOBS.by_id[id])
         THEN /\ JOBS' = [JOBS EXCEPT !.by_id[id] =
                            MarkComplete(@, "Completed", b)]
              /\ Serve("complete", r, Reply(OK))
         ELSE /\ UNCHANGED JOBS
              /\ Serve("complete", r, Reply(BAD_REQUEST))
    /\ UNCHANGED <<enqueued, claimed>>

\* ------------------------------------------------------------ specification

\* The queue at process start.
SchedInit ==
    /\ JOBS = EmptyQueue
    /\ inflight = [op \in Ops |-> 0]
    /\ req = NoReq
    /\ resp = NoResp
    /\ enqueued = << >>
    /\ claimed = << >>
    /\ batch = NoBatch

\* One peer, running the scheduler, and no request relayed.
ProxyIdle ==
    /\ roles = [p \in Peers |-> p = "A"]
    /\ advertised = [p \in Peers |-> p = "A"]
    /\ rq = NoRq
    /\ answer = NoAnswer
    /\ counters = [k \in CounterNames |-> 0]

\* An agent about to bind, with no environment variable set and no port taken.
AgentIdle ==
    /\ PORT = [set |-> FALSE, parsed |-> NoPort]
    /\ storage_role = FALSE
    /\ should_run_jobs = FALSE
    /\ in_use = {}
    /\ apc = "find_port"
    /\ port = NoPort
    /\ bound = NoPort
    /\ adverts = {}
    /\ exit_code = NoPort
    /\ jobs_cell = "unset"
    /\ handler = "none"

\* A client that has not started to look for a node; nobody else on the mesh.
CliIdle ==
    /\ override_url = FALSE
    /\ view = [p \in Peers |-> "absent"]
    /\ cpc = "begin"
    /\ member = FALSE
    /\ joined = FALSE
    /\ result = NoResult
    /\ returned = NoResult
    /\ outcome = "running"
    /\ cli_exit = NoExit

\* No task has asked for a URL, and the override is not set.
PeersIdle ==
    /\ SERVAL_NODE_URL = "unset"
    /\ SERVAL_NODE_ADDR = NoAddr
    /\ tpc = [t \in Callers |-> "idle"]
    /\ initializer = NoCaller
    /\ url = [t \in Callers |-> NoAddr]
    /\ discoveries = 0

Init ==
    /\ SchedInit
    /\ ProxyIdle
    /\ AgentIdle
    /\ CliIdle
    /\ PeersIdle

Next ==
    \/ ArriveEnqueue
    \/ ArriveClaim
    \/ ArriveComplete
    \/ ArriveStatus
    \/ ArriveTickle
    \/ enqueue_job
    \/ claim_job
    \/ tickle_job
    \/ job_status
    \/ complete_job

Spec == Init /\ [][Next]_vars

\* -------------------------------------------- concurrent claims (scenario)

\* NumTasks claim requests are accepted together while nothing else is in
\* flight: n requests against the m jobs pending at that moment, `base` claims
\* having been answered with a job before.  Their handlers then run in any
\* order, and nothing else is accepted.
ClaimBatch ==
    /\ batch = NoBatch
    /\ InFlight = 0
    /\ inflight' = [inflight EXCEPT !["claim"] = NumTasks]
    /\ batch' = [n |-> NumTasks, m |-> Len(JOBS.pending), base |-> Len(claimed)]
    /\ UNCHANGED <<JOBS, req, resp, enqueued, claimed>>
    /\ UNCHANGED otherVars

BeforeBatch == batch = NoBatch /\ Next

BatchClaim == batch # NoBatch /\ claim_job

NextClaim ==
    \/ BeforeBatch
    \/ ClaimBatch
    \/ BatchClaim

SpecClaim == Init /\ [][NextClaim]_vars

\* ------------------------------------------------------------------ claims

Range(s) == {s[i] : i \in 1 .. Len(s)}

Min(a, b) == IF a < b THEN a ELSE b

NoDuplicates(s) == \A i, j \in 1 .. Len(s) : i # j => s[i] # s[j]

\* The step is the run of the handler of route `op`; req' and resp' are its
\* request and response.
Served(op) == inflight'[op] = inflight[op] - 1

\* C1: in every reachable state a job's id is in the pending sequence if and
\* only if the job's status is Pending.
C1_PendingIffStatusPending ==
    /\ Range(JOBS.pending) \subseteq Known(JOBS)
    /\ \A j \in Known(JOBS) :
          (JOBS.by_id[j].status = "Pending") <=> (j \in Range(JOBS.pending))

\* A job is pending while another one has been claimed and completed.
C1_Witness ==
    \E j, k \in Known(JOBS) :
        /\ j \in Range(JOBS.pending)
        /\ JOBS.by_id[k].status = "Completed"

\* C2: of N claim requests in flight together against M <= N pending jobs,
\* the k-th to be served returns a job iff k <= M, so exactly M return a job,
\* the jobs returned are pairwise distinct, and the others return 404.
C2_ConcurrentClaims ==
    (batch # NoBatch /\ batch.m <= batch.n) =>
        LET done == batch.n - inflight["claim"]
            got  == Len(claimed) - batch.base
        IN  /\ got = Min(done, batch.m)
            /\ NoDuplicates(claimed)
            /\ done >= 1 =>
                 /\ req.op = "claim"
                 /\ resp.code = IF done <= batch.m THEN OK ELSE NOT_FOUND
                 /\ resp.job_id = IF done <= batch.m THEN claimed[Len(claimed)] ELSE NoId
            /\ done = batch.n => (got = batch.m /\ JOBS.pending = << >>)

\* All N claims have been served, M of them with a job, 0 < M < N.
C2_Witness ==
    /\ batch # NoBatch
    /\ inflight["claim"] = 0
    /\ 0 < batch.m /\ batch.m < batch.n
    /\ Len(claimed) - batch.base = batch.m
    /\ resp.code = NOT_FOUND

\* C3: each job id is returned by claim at most once, also when its claimant
\* never completes it.
C3_ClaimedAtMostOnce == NoDuplicates(claimed)

\* Every job has been claimed, the first never completed, and a later claim
\* has found nothing.
C3_Witness ==
    /\ Len(claimed) >= 2
    /\ JOBS.by_id[claimed[1]].status = "Claimed"
    /\ req.op = "claim" /\ resp.code = NOT_FOUND

\* C4: jobs are claimed in the order they were enqueued: the ids returned by
\* claim are, in order, the ids enqueue stored first.
C4_FifoOrder ==
    /\ Len(claimed) <= Len(enqueued)
    /\ \A i \in 1 .. Len(claimed) : claimed[i] = enqueued[i]

\* Two jobs were enqueued and both have been claimed.
C4_Witness ==
    /\ Len(enqueued) >= 2
    /\ Len(claimed) = Len(enqueued)

\* The steps of the job state machine: Pending -> Claimed -> Running ->
\* {Completed, Failed}, complete being allowed from Claimed as from Running,
\* and Cancelled from any non-terminal status.
LegalSteps ==
    {<<"Pending", "Claimed">>, <<"Claimed", "Running">>,
     <<"Claimed", "Completed">>, <<"Claimed", "Failed">>,
     <<"Running", "Completed">>, <<"Running", "Failed">>,
     <<"Pending", "Cancelled">>, <<"Claimed", "Cancelled">>,
     <<"Running", "Cancelled">>}

\* C5: every change of a job's status is a legal step of the state machine;
\* a status never moves backwards and a terminal status never changes.
C5_LegalTransitions ==
    [][\A j \in Known(JOBS) :
          /\ j \in Known(JOBS')
          /\ JOBS'.by_id[j].status # JOBS.by_id[j].status =>
                <<JOBS.by_id[j].status, JOBS'.by_id[j].status>> \in LegalSteps]_vars

\* A job has gone Pending -> Claimed -> Completed while another is Claimed.
C5_Witness ==
    \E j, k \in Known(JOBS) :
        /\ JOBS.by_id[j].status = "Completed"
        /\ JOBS.by_id[k].status = "Claimed"

\* C6: complete on a known job that is neither Claimed nor Running answers
\* 400 and leaves the job as it was.
C6_InvalidTransition ==
    [][(/\ Served("complete")
        /\ req'.id \in Known(JOBS)
        /\ JOBS.by_id[req'.id].status \notin {"Claimed", "Running"})
       => (/\ resp'.code = BAD_REQUEST
           /\ JOBS'.by_id[req'.id] = JOBS.by_id[req'.id])]_vars

\* A second complete of a Completed job has been refused.
C6_Witness ==
    /\ req.op = "complete" /\ resp.code = BAD_REQUEST
    /\ req.id \in Known(JOBS)
    /\ JOBS.by_id[req.id].status = "Completed"
    /\ JOBS.by_id[req.id].output # req.body

\* C7: complete and get for an id enqueue never returned answer 404 and
\* leave the queue unchanged.
C7_NotFound ==
    [][(/\ Served("complete") \/ Served("status")
        /\ req'.id \notin Range(enqueued))
       => (resp'.code = NOT_FOUND /\ JOBS' = JOBS)]_vars

\* A complete for an unknown id has been answered 404 by a queue that holds
\* jobs.
C7_Witness ==
    /\ req.op = "complete" /\ resp.code = NOT_FOUND
    /\ req.id \notin Range(enqueued)
    /\ enqueued # << >>

\* C8: a job's claimant is set if and only if the job's status is Claimed or
\* Running; every successful claim leaves the job with a claimant set.
C8_ClaimantIffClaimed ==
    \A j \in Known(JOBS) :
        (JOBS.by_id[j].claimant # NoPeer)
            <=> (JOBS.by_id[j].status \in {"Claimed", "Running"})

\* C9 as stated: a job's output is non-empty if and only if the job's status
\* is Completed or Failed, whatever output was passed to complete.
C9_OutputIffTerminal ==
    \A j \in Known(JOBS) :
        (JOBS.by_id[j].output # << >>)
            <=> (JOBS.by_id[j].status \in {"Completed", "Failed"})

\* C9 as amended: a job's output is non-empty only if its status is Completed
\* or Failed, and a successful complete leaves the job with exactly the bytes
\* it was passed, which are empty when the body was empty.
C9_OutputOnlyWhenCompleted ==
    /\ \A j \in Known(JOBS) :
          (JOBS.by_id[j].output # << >>)
              => (JOBS.by_id[j].status \in {"Completed", "Failed"})
    /\ (req.op = "complete" /\ resp.code = OK) =>
          /\ JOBS.by_id[req.id].output = req.body
          /\ JOBS.by_id[req.id].status \in {"Completed", "Failed"}

\* A job has been completed with the empty body.
C9_Witness ==
    /\ req.op = "complete" /\ resp.code = OK /\ req.body = << >>
    /\ JOBS.by_id[req.id].status = "Completed"
    /\ JOBS.by_id[req.id].output = << >>

\* C10: a successful complete leaves the job in the status the caller
\* directed, Completed or Failed.
C10_StatusAsDirected ==
    (req.op = "complete" /\ resp.code = OK) =>
        JOBS.by_id[req.id].status = req.directed

\* C11: enqueue(name, input) stores the job under the id it returns; a claim
\* that finds jobs pending returns the head's id with the name and input it
\* was enqueued with; a successful complete leaves the job Completed with
\* the output passed; and every get of a Completed job returns Completed
\* and that output, which no later step changes.
C11_EnqueueClaimCompleteGet ==
    [][/\ (Served("enqueue") /\ resp'.code = OK) =>
             /\ resp'.job_id \notin Known(JOBS)
             /\ JOBS'.by_id[resp'.job_id].name = req'.name
             /\ JOBS'.by_id[resp'.job_id].input = req'.body
             /\ JOBS.pending = << >> => JOBS'.pending = <<resp'.job_id>>
       /\ (Served("claim") /\ JOBS.pending # << >>) =>
             /\ resp'.code = OK
             /\ resp'.job_id = JOBS.pending[1]
             /\ resp'.name = JOBS.by_id[JOBS.pending[1]].name
             /\ resp'.input = JOBS.by_id[JOBS.pending[1]].input
       /\ \A j \in Known(JOBS) :
             /\ JOBS'.by_id[j].name = JOBS.by_id[j].name
             /\ JOBS'.by_id[j].input = JOBS.by_id[j].input
             /\ JOBS.by_id[j].status = "Completed" => JOBS'.by_id[j] = JOBS.by_id[j]
       /\ (Served("complete") /\ resp'.code = OK) =>
             /\ JOBS'.by_id[req'.id].status = "Completed"
             /\ JOBS'.by_id[req'.id].output = req'.body
       /\ (/\ Served("status")
           /\ req'.id \in Known(JOBS)
           /\ JOBS.by_id[req'.id].status = "Completed") =>
             /\ resp'.code = OK
             /\ resp'.status = "Completed"
             /\ resp'.output = JOBS.by_id[req'.id].output]_vars

\* get has returned {Completed, 0x68 0x69} for a job enqueued as "echo" and
\* completed with that output.
C11_Witness ==
    /\ req.op = "status" /\ resp.code = OK
    /\ resp.status = "Completed" /\ resp.output = <<104, 105>>
    /\ JOBS.by_id[req.id].name = "echo"
    /\ JOBS.by_id[req.id].input = <<104, 105>>

\* C12: a tickle of a Claimed job moves it to Running: once a tickle of a job
\* has been answered, the job is not Claimed any more.
C12_TickleStartsRunning ==
    (req.op = "tickle" /\ resp.code = OK /\ req.id \in Known(JOBS)) =>
        JOBS.by_id[req.id].status # "Claimed"

\* C13: tickle for an id unknown to the queue answers 404.
C13_TickleNotFound ==
    (req.op = "tickle" /\ req.id \notin Known(JOBS)) => resp.code = NOT_FOUND

\* C14: get leaves the pending sequence and every job unchanged, for known
\* and unknown ids.
C14_GetReadOnly ==
    [][Served("status") => JOBS' = JOBS]_vars

\* get has answered for a Claimed job while another job is pending.
C14_Witness ==
    /\ req.op = "status" /\ resp.code = OK /\ resp.status = "Claimed"
    /\ JOBS.pending # << >>

\* ------------------------------------------------- relaying scheduler requests

BAD_GATEWAY == 502

Last(seq) == seq[Len(seq)]

Bump(c, k) == [c EXCEPT ![k] = @ + 1]

\* relay_request (agent/src/api/v1/proxy.rs) for a request peer p holds whose
\* X-Relayed-By header is h: the set of its possible results.  A header naming
\* p itself is refused with 508; a header from another peer ends the relaying;
\* otherwise find_role picks any peer the view shows with the Scheduler role and
\* the request goes there, unless the connection fails.
relay_request(p, h) ==
    IF h = p
    THEN {[kind |-> "response", code |-> LOOP_DETECTED, why |-> "loop", to |-> NoPeer]}
    ELSE IF h # NoPeer
    THEN {[kind |-> "err", code |-> 0, why |-> "depth", to |-> NoPeer]}
    ELSE LET found == {q \in Peers \ {p} : advertised[q]}
         IN  IF found = {}
             THEN {[kind |-> "err", code |-> 0, why |-> "no_peer", to |-> NoPeer]}
             ELSE {[kind |-> "forward", code |-> 0, why |-> "relayed", to |-> q] : q \in found}
                  \cup {[kind |-> "err", code |-> 0, why |-> "upstream_failed", to |-> NoPeer],
                        [kind |-> "response", code |-> BAD_GATEWAY, why |-> "upstream_failed",
                         to |-> NoPeer]}

\* The peer holding the request under way.
Holder == Last(rq.chain)

Answered(code, body, why) ==
    /\ answer' = [code |-> code, body |-> body, by |-> Holder, why |-> why,
                  header |-> rq.relayed_by]
    /\ rq' = [rq EXCEPT !.stage = "done"]

\* A client sends a scheduler request to a peer; it may carry any
\* X-Relayed-By header.
ClientRequest ==
    /\ rq.stage \in {"none", "done"}
    /\ rq.n < MaxRequests
    /\ \E p \in Peers, h \in {NoPeer} \cup Peers, path \in Paths :
         rq' = [stage |-> "at", chain |-> <<p>>, relayed_by |-> h, from_client |-> h,
                path |-> path, n |-> rq.n + 1]
    /\ answer' = NoAnswer
    /\ UNCHANGED <<roles, advertised, counters>>
    /\ UNCHANGED <<schedVars, agentVars, cliVars, peersVars>>

\* mount: a peer running the scheduler serves the request with its own handlers.
LocalServe ==
    /\ rq.stage = "at"
    /\ roles[Holder]
    /\ \E code \in {OK, NOT_FOUND} : Answered(code, "", "local")
    /\ UNCHANGED <<roles, advertised, counters>>
    /\ UNCHANGED <<schedVars, agentVars, cliVars, peersVars>>

\* What proxy() does with result o of relay_request.  An upstream response
\* comes back verbatim, so a forwarded request is answered by the peer it went
\* to.
ProxyResult(o) ==
    CASE o.kind = "forward" ->
            /\ rq' = [rq EXCEPT !.chain = Append(@, o.to), !.relayed_by = Holder]
            /\ answer' = answer
            /\ counters' = Bump(counters, ProxyCounter)
      [] o.kind = "response" ->
            /\ Answered(o.code, "", o.why)
            /\ counters' = Bump(counters, ProxyCounter)
      [] o.kind = "err" ->
            /\ Answered(SERVICE_UNAVAILABLE, ProxyUnavailableBody, o.why)
            /\ counters' = Bump(Bump(counters, ProxyCounter), ErrorCounter)

\* proxy() forwarding whatever header the request has, or none.
proxy_strip_header ==
    /\ rq.stage = "at"
    /\ ~roles[Holder]
    /\ \E o \in relay_request(Holder, NoPeer) : ProxyResult(o)
    /\ UNCHANGED <<roles, advertised>>
    /\ UNCHANGED <<schedVars, agentVars, cliVars, peersVars>>

\* proxy() answering 503 unless the relay succeeded.
proxy_success_only ==
    /\ rq.stage = "at"
    /\ ~roles[Holder]
    /\ \E o \in relay_request(Holder, rq.relayed_by) :
         IF o.kind = "response"
         THEN ProxyResult([o EXCEPT !.kind = "err"])
         ELSE ProxyResult(o)
    /\ UNCHANGED <<roles, advertised>>
    /\ UNCHANGED <<schedVars, agentVars, cliVars, peersVars>>

\* mount_proxy: any /v1/scheduler/*rest on a peer that does not run the scheduler.
proxy ==
    /\ rq.stage = "at"
    /\ ~roles[Holder]
    /\ \E o \in relay_request(Holder, rq.relayed_by) : ProxyResult(o)
    /\ UNCHANGED <<roles, advertised>>
    /\ UNCHANGED <<schedVars, agentVars, cliVars, peersVars>>

\* Any assignment of the scheduler to peers, and any view of it: the view may
\* be stale.
InitProxy ==
    /\ SchedInit
    /\ AgentIdle
    /\ CliIdle
    /\ PeersIdle
    /\ roles \in [Peers -> BOOLEAN]
    /\ advertised \in [Peers -> BOOLEAN]
    /\ rq = NoRq
    /\ answer = NoAnswer
    /\ counters = [k \in CounterNames |-> 0]

NextProxy ==
    \/ ClientRequest
    \/ LocalServe
    \/ proxy

SpecProxy == InitProxy /\ [][NextProxy]_vars

\* How often the request under way has been relayed.
Hops == IF rq.chain = << >> THEN 0 ELSE Len(rq.chain) - 1

\* No request that arrived with X-Relayed-By went on to another peer.
NeverRelayedAgain ==
    /\ Hops <= 1
    /\ rq.from_client # NoPeer => Hops = 0

HeaderAnswered == rq.stage = "done" /\ answer.header # NoPeer

\* C15 as stated: a request arriving with X-Relayed-By, from any peer, is
\* not relayed again, and is either served locally or answered 503.
C15_ServedLocallyOr503 ==
    /\ NeverRelayedAgain
    /\ HeaderAnswered => (answer.why = "local" \/ answer.code = SERVICE_UNAVAILABLE)

\* C15: a request arriving with X-Relayed-By, from any peer, is not relayed
\* again, so no request makes more than one hop; it is served locally, or
\* answered 503, or answered 508 when the header names the receiving peer.
C15_NeverRelayedAgain ==
    /\ NeverRelayedAgain
    /\ HeaderAnswered =>
         \/ answer.why = "local"
         \/ answer.code = SERVICE_UNAVAILABLE
         \/ answer.code = LOOP_DETECTED /\ answer.header = answer.by

\* A relayed request reached a peer that does not run the scheduler and got 503.
C15_Witness ==
    /\ rq.stage = "done"
    /\ Hops = 1
    /\ rq.from_client = NoPeer
    /\ answer.header = rq.chain[1]
    /\ answer.by = rq.chain[2]
    /\ answer.code = SERVICE_UNAVAILABLE
    /\ answer.why = "depth"

C17_NoPeerBody ==
    (rq.stage = "done" /\ answer.why = "no_peer") =>
        /\ answer.code = SERVICE_UNAVAILABLE
        /\ answer.body = "no peer available for role Scheduler"

\* ------------------------------------------------------------ agent start-up

predefined_port == PORT.parsed

Free == Ports \ in_use

\* find_nearest_port (utils::networking): the first free port at or above
\* `base`, if the model has one.
find_nearest_port(base) ==
    IF \E n \in Free : n >= base
    THEN CHOOSE n \in Free : n >= base /\ \A k \in Free : k >= base => n <= k
    ELSE NoPort

\* What this agent has enabled.
EnabledRoles ==
    (IF storage_role THEN {"Storage"} ELSE {}) \cup (IF should_run_jobs THEN {"Runner"} ELSE {})

AgentConfig == <<PORT, storage_role, should_run_jobs>>

\* port = predefined_port.unwrap_or_else(|| find_nearest_port(8100).unwrap());
\* the unwrap panics when no port is found.
FindPort ==
    /\ apc = "find_port"
    /\ IF predefined_port # NoPort
       THEN /\ port' = predefined_port
            /\ apc' = "try_bind"
            /\ exit_code' = exit_code
       ELSE IF find_nearest_port(BasePort) # NoPort
       THEN /\ port' = find_nearest_port(BasePort)
            /\ apc' = "try_bind"
            /\ exit_code' = exit_code
       ELSE /\ port' = port
            /\ apc' = "ended"
            /\ exit_code' = 101
    /\ UNCHANGED <<AgentConfig, in_use, bound, adverts>>
    /\ UNCHANGED <<schedVars, proxyVars, cliVars, peersVars>>
    /\ UNCHANGED serveVars

\* axum::Server::try_bind(&addr).  Port 0 asks the system for any free port.
\* A failure ends the process when PORT gave the port, and otherwise goes
\* round the loop.
TryBind ==
    /\ apc = "try_bind"
    /\ \/ /\ port = 0
          /\ \E n \in Free : bound' = n
          /\ apc' = "advertise_daemon"
          /\ exit_code' = exit_code
       \/ /\ port \in Free
          /\ bound' = port
          /\ apc' = "advertise_daemon"
          /\ exit_code' = exit_code
       \/ /\ IF port = 0 THEN Free = {} ELSE port \notin Free
          /\ bound' = bound
          /\ IF predefined_port # NoPort
             THEN apc' = "ended" /\ exit_code' = 1
             ELSE apc' = "find_port" /\ exit_code' = exit_code
    /\ UNCHANGED <<AgentConfig, in_use, port, adverts>>
    /\ UNCHANGED <<schedVars, proxyVars, cliVars, peersVars>>
    /\ UNCHANGED serveVars

\* advertise_service(service, port, &instance_id, None)? : the entry is made,
\* or main returns the error.
Advertise(service, next) ==
    \/ /\ adverts' = adverts \cup {[service |-> service, port |-> port, id |-> "A"]}
       /\ apc' = next
       /\ exit_code' = exit_code
    \/ /\ adverts' = adverts
       /\ apc' = "ended"
       /\ exit_code' = 1

AdvertiseDaemon ==
    /\ apc = "advertise_daemon"
    /\ Advertise("serval_daemon", "advertise_storage")
    /\ UNCHANGED <<AgentConfig, in_use, port, bound>>
    /\ UNCHANGED <<schedVars, proxyVars, cliVars, peersVars>>
    /\ UNCHANGED serveVars

AdvertiseStorage ==
    /\ apc = "advertise_storage"
    /\ IF storage_role
       THEN Advertise("serval_storage", "advertise_runner")
       ELSE /\ apc' = "advertise_runner"
            /\ UNCHANGED <<adverts, exit_code>>
    /\ UNCHANGED <<AgentConfig, in_use, port, bound>>
    /\ UNCHANGED <<schedVars, proxyVars, cliVars, peersVars>>
    /\ UNCHANGED serveVars

AdvertiseRunner ==
    /\ apc = "advertise_runner"
    /\ IF should_run_jobs
       THEN Advertise("serval_runner", "serving")
       ELSE /\ apc' = "serving"
            /\ UNCHANGED <<adverts, exit_code>>
    /\ UNCHANGED <<AgentConfig, in_use, port, bound>>
    /\ UNCHANGED <<schedVars, proxyVars, cliVars, peersVars>>
    /\ UNCHANGED serveVars

\* Another process takes or gives up a port the agent does not hold.
OtherProcess ==
    /\ apc # "ended"
    /\ \E n \in Ports \ {bound} :
         in_use' = IF n \in in_use THEN in_use \ {n} ELSE in_use \cup {n}
    /\ UNCHANGED <<AgentConfig, apc, port, bound, adverts, exit_code>>
    /\ UNCHANGED <<schedVars, proxyVars, cliVars, peersVars>>
    /\ UNCHANGED serveVars

\* A scheduler request reaches the serving agent.  enqueue_job, claim_job,
\* job_status and complete_job all begin with
\* JOBS.get().expect("Job queue not initialized"), which panics on an empty cell.
SchedulerRequest ==
    /\ apc = "serving"
    /\ handler' = IF jobs_cell = "set" THEN "served" ELSE "panicked"
    /\ UNCHANGED <<AgentConfig, in_use, apc, port, bound, adverts, exit_code, jobs_cell>>
    /\ UNCHANGED <<schedVars, proxyVars, cliVars, peersVars>>

InitAgent ==
    /\ SchedInit
    /\ ProxyIdle
    /\ CliIdle
    /\ PeersIdle
    /\ PORT \in PortSettings
    /\ storage_role \in BOOLEAN
    /\ should_run_jobs \in BOOLEAN
    /\ in_use \in SUBSET Ports
    /\ apc = "find_port"
    /\ port = NoPort
    /\ bound = NoPort
    /\ adverts = {}
    /\ exit_code = NoPort
    /\ jobs_cell = "unset"
    /\ handler = "none"

NextAgent ==
    \/ FindPort
    \/ TryBind
    \/ AdvertiseDaemon
    \/ AdvertiseStorage
    \/ AdvertiseRunner
    \/ OtherProcess
    \/ SchedulerRequest

SpecAgent == InitAgent /\ [][NextAgent]_vars

\* C18: every advertisement carries the port the HTTP server is bound to,
\* and none is made before the bind; with PORT unset the port is found by
\* scanning upward from 8100.
C18_AdvertisedPortIsBound ==
    /\ \A a \in adverts : bound # NoPort /\ a.port = bound
    /\ (~PORT.set /\ bound # NoPort) => bound >= BasePort

\* C19: whatever roles are enabled, the agent is never on the mesh with more
\* than one entry, and once it serves it has exactly one entry, whose roles
\* are all its enabled roles.
C19_OneMembershipEntry ==
    /\ Cardinality(adverts) <= 1
    /\ apc = "serving" =>
         \E a \in adverts : adverts = {a} /\ ServiceRole(a.service) = EnabledRoles

\* ---------------------------------------------------------- client discovery

\* ServalMesh::stop (utils::mesh): leaving is best-effort and gives ().
StopOutcomes == {"left"}

\* Peers the view shows with the role looked for.
WithRole == {p \in Peers : view[p] \in {"runner", "runner_no_address"}}

Return(r) ==
    /\ returned' = r
    /\ cpc' = "done"

\* if let Ok(override_url) = std::env::var(override_var) { return Ok(override_url); }
Override ==
    /\ cpc = "begin"
    /\ IF override_url
       THEN Return(Ok("override"))
       ELSE cpc' = "new" /\ returned' = returned
    /\ UNCHANGED <<override_url, view, member, joined, result>>
    /\ UNCHANGED <<schedVars, proxyVars, agentVars, peersVars>>
    /\ UNCHANGED mainVars

\* ServalMesh::new(metadata, mesh_port, None).await?
MeshNew ==
    /\ cpc = "new"
    /\ \/ cpc' = "start" /\ returned' = returned
       \/ Return(Err("mesh"))
    /\ UNCHANGED <<override_url, view, member, joined, result>>
    /\ UNCHANGED <<schedVars, proxyVars, agentVars, peersVars>>
    /\ UNCHANGED mainVars

\* mesh.start().await? : the client joins, and then sleeps 5 s.
MeshStart ==
    /\ cpc = "start"
    /\ \/ /\ cpc' = "sleep"
          /\ member' = TRUE
          /\ joined' = TRUE
          /\ returned' = returned
       \/ /\ Return(Err("mesh"))
          /\ UNCHANGED <<member, joined>>
    /\ UNCHANGED <<override_url, view, result>>
    /\ UNCHANGED <<schedVars, proxyVars, agentVars, peersVars>>
    /\ UNCHANGED mainVars

\* What `result` is when find_role gives `target` (NoPeer for None).
Discovered(target) ==
    IF target = NoPeer
    THEN Err("Unable to locate a peer")
    ELSE IF view[target] = "runner"
    THEN Ok(target)
    ELSE Err("found a peer without an address")

\* The discovery returning as soon as no peer is found.
FindRoleOrReturn ==
    /\ cpc = "sleep"
    /\ IF WithRole = {}
       THEN /\ result' = Discovered(NoPeer)
            /\ Return(result')
       ELSE /\ \E target \in WithRole : result' = Discovered(target)
            /\ cpc' = "stop"
            /\ returned' = returned
    /\ UNCHANGED <<override_url, view, member, joined>>
    /\ UNCHANGED <<schedVars, proxyVars, agentVars, peersVars>>
    /\ UNCHANGED mainVars

\* let result = if let Some(target) = mesh.find_role(role).await { .. } else { .. };
FindRole ==
    /\ cpc = "sleep"
    /\ \E target \in (IF WithRole = {} THEN {NoPeer} ELSE WithRole) :
         result' = Discovered(target)
    /\ cpc' = "stop"
    /\ UNCHANGED <<override_url, view, member, joined, returned>>
    /\ UNCHANGED <<schedVars, proxyVars, agentVars, peersVars>>
    /\ UNCHANGED mainVars

\* mesh.stop().await?; result
MeshStop ==
    /\ cpc = "stop"
    /\ \E o \in StopOutcomes :
         IF o = "left"
         THEN member' = FALSE /\ Return(result)
         ELSE member' \in BOOLEAN /\ Return(Err("mesh"))
    /\ UNCHANGED <<override_url, view, joined, result>>
    /\ UNCHANGED <<schedVars, proxyVars, agentVars, peersVars>>
    /\ UNCHANGED mainVars

\* The membership view changes while the client looks.
Gossip ==
    /\ cpc \notin {"done", "exited"}
    /\ \E p \in Peers, shown \in Shown : view' = [view EXCEPT ![p] = shown]
    /\ view' # view
    /\ UNCHANGED <<override_url, cpc, member, joined, result, returned>>
    /\ UNCHANGED <<schedVars, proxyVars, agentVars, peersVars>>
    /\ UNCHANGED mainVars

\* What a command function can meet: an error it returns with `?` (a file
\* it cannot read, a request that cannot be sent), an HTTP response whose
\* status is no success, or an HTTP response with a success status.
Meets == {"error", "http_failure", "http_success"}

\* main ends: Ok(()) exits with SUCCESS, Err(..) with FAILURE.
Exit(how, r) ==
    /\ cpc' = "exited"
    /\ outcome' = how
    /\ cli_exit' = IF r.ok THEN SUCCESS ELSE FAILURE
    /\ UNCHANGED <<override_url, view, member, joined, result, returned>>
    /\ UNCHANGED <<schedVars, proxyVars, agentVars, peersVars>>

\* let baseurl = maybe_find_peer(&ServalRole::Runner, "SERVAL_NODE_URL").await?;
DiscoveryFailed ==
    /\ cpc = "done"
    /\ ~returned.ok
    /\ Exit("discovery_failed", returned)

\* upload_manifest: read the manifest and the executable, POST the manifest,
\* PUT the executable.  A response that is no success is printed and the
\* function returns Ok(()).
upload_manifest ==
    /\ cpc = "done"
    /\ returned.ok
    /\ \E post \in Meets, put \in Meets :
         IF post = "error"
         THEN Exit("failed", Err("store"))
         ELSE IF post = "http_failure"
         THEN Exit("http_failure", Ok("store"))
         ELSE IF put = "error"
         THEN Exit("failed", Err("store"))
         ELSE IF put = "http_failure"
         THEN Exit("http_failure", Ok("store"))
         ELSE Exit("succeeded", Ok("store"))

\* run: read the input, POST it, write the output.  A response that is no
\* success is printed and the function returns Ok(()).
run ==
    /\ cpc = "done"
    /\ returned.ok
    /\ \E post \in Meets, written \in BOOLEAN :
         IF post = "error"
         THEN Exit("failed", Err("run"))
         ELSE IF post = "http_failure"
         THEN Exit("http_failure", Ok("run"))
         ELSE IF ~written
         THEN Exit("failed", Err("run"))
         ELSE Exit("succeeded", Ok("run"))

InitCli ==
    /\ SchedInit
    /\ ProxyIdle
    /\ AgentIdle
    /\ PeersIdle
    /\ override_url \in BOOLEAN
    /\ view \in [Peers -> Shown]
    /\ cpc = "begin"
    /\ member = FALSE
    /\ joined = FALSE
    /\ result = NoResult
    /\ returned = NoResult
    /\ outcome = "running"
    /\ cli_exit = NoExit

NextCli ==
    \/ Override
    \/ MeshNew
    \/ MeshStart
    \/ FindRole
    \/ MeshStop
    \/ Gossip
    \/ DiscoveryFailed
    \/ upload_manifest
    \/ run

SpecCli == InitCli /\ [][NextCli]_vars

DiscoveryResults ==
    {Ok(p) : p \in Peers}
    \cup {Err("found a peer without an address"), Err("Unable to locate a peer")}

DISCOVERY_FAILURE == 2

\* C21: the client exits with 2 when peer discovery fails, with 1 on any
\* other failure, and with 0 only when the command succeeded; a response
\* from the agent that is no success does not give exit 0.
C21_ExitCodes ==
    cpc = "exited" =>
        /\ outcome = "discovery_failed" => cli_exit = DISCOVERY_FAILURE
        /\ outcome = "failed" => cli_exit = FAILURE
        /\ cli_exit = SUCCESS => outcome = "succeeded"

\* C22: a relayed scheduler request increments exactly one counter, the one
\* named after the role and the path of the request: when the first request
\* has just been relayed, the counter of its path is 1 and every other
\* counter is 0.
C22_CounterPerPath ==
    (rq.n = 1 /\ rq.stage = "at" /\ Hops = 1) =>
        \A k \in CounterNames :
            counters[k] = IF k = PathCounter(rq.path) THEN 1 ELSE 0

OthersUnchanged == UNCHANGED <<schedVars, proxyVars, agentVars, cliVars>>

\* build_url uses the address base_url gave it.
Built(t, addr) ==
    /\ url' = [url EXCEPT ![t] = addr]
    /\ tpc' = [tpc EXCEPT ![t] = "built"]

\* A task calls build_url, and base_url calls get_or_init: a set cell gives
\* its address; on an empty cell the task runs its initializing future, unless
\* another task's is running, and then it waits.
base_url ==
    \E t \in Callers :
        /\ tpc[t] \in {"idle", "built"}
        /\ IF SERVAL_NODE_ADDR # NoAddr
           THEN Built(t, SERVAL_NODE_ADDR) /\ initializer' = initializer
           ELSE IF initializer = NoCaller
           THEN /\ initializer' = t
                /\ tpc' = [tpc EXCEPT ![t] = "init"]
                /\ url' = url
           ELSE /\ tpc' = [tpc EXCEPT ![t] = "waiting"]
                /\ UNCHANGED <<initializer, url>>
        /\ UNCHANGED <<SERVAL_NODE_URL, SERVAL_NODE_ADDR, discoveries>>
        /\ OthersUnchanged

\* base_url looking for a peer on every call.
maybe_find_peer_uncached ==
    \E t \in Callers :
        /\ tpc[t] = "init"
        /\ initializer = t
        /\ initializer' = NoCaller
        /\ \E addr \in Addrs : Built(t, addr)
        /\ discoveries' = discoveries + 1
        /\ UNCHANGED <<SERVAL_NODE_URL, SERVAL_NODE_ADDR>>
        /\ OthersUnchanged

\* utils::mesh::discover and http_address: the address of a peer found, or
\* NoAddr when discovery fails or the peer found has no address.
discover == Addrs \cup {NoAddr}

\* The initializing future: maybe_find_peer(None, "SERVAL_NODE_URL").  An
\* override that parses is the address; otherwise discover_peer looks for a
\* peer, and finds one with an address, or fails.  An Err panics the task
\* and leaves the cell empty.
maybe_find_peer ==
    \E t \in Callers :
        /\ tpc[t] = "init"
        /\ initializer = t
        /\ initializer' = NoCaller
        /\ IF SERVAL_NODE_URL \in Addrs
           THEN /\ SERVAL_NODE_ADDR' = SERVAL_NODE_URL
                /\ Built(t, SERVAL_NODE_URL)
                /\ discoveries' = discoveries
           ELSE /\ discoveries' = discoveries + 1
                /\ \E found \in discover :
                     IF found # NoAddr
                     THEN /\ SERVAL_NODE_ADDR' = found
                          /\ Built(t, found)
                     ELSE /\ SERVAL_NODE_ADDR' = SERVAL_NODE_ADDR
                          /\ tpc' = [tpc EXCEPT ![t] = "panicked"]
                          /\ url' = url
        /\ UNCHANGED SERVAL_NODE_URL
        /\ OthersUnchanged

\* A task waiting in get_or_init goes on once no initializing future runs:
\* with the address if the cell is set, with its own initializing future if
\* not.
get_or_init ==
    \E t \in Callers :
        /\ tpc[t] = "waiting"
        /\ initializer = NoCaller
        /\ IF SERVAL_NODE_ADDR # NoAddr
           THEN Built(t, SERVAL_NODE_ADDR) /\ initializer' = initializer
           ELSE /\ initializer' = t
                /\ tpc' = [tpc EXCEPT ![t] = "init"]
                /\ url' = url
        /\ UNCHANGED <<SERVAL_NODE_URL, SERVAL_NODE_ADDR, discoveries>>
        /\ OthersUnchanged

InitPeers ==
    /\ SchedInit
    /\ ProxyIdle
    /\ AgentIdle
    /\ CliIdle
    /\ SERVAL_NODE_URL \in Overrides
    /\ SERVAL_NODE_ADDR = NoAddr
    /\ tpc = [t \in Callers |-> "idle"]
    /\ initializer = NoCaller
    /\ url = [t \in Callers |-> NoAddr]
    /\ discoveries = 0

NextPeers ==
    \/ base_url
    \/ maybe_find_peer
    \/ get_or_init

SpecPeers == InitPeers /\ [][NextPeers]_vars

Panicked == {t \in Callers : tpc[t] = "panicked"}

\* Every URL built so far was built from the address in the cell.
SameAddress == \A t \in Callers : url[t] # NoAddr => url[t] = SERVAL_NODE_ADDR

C25_PredefinedPortOrExit ==
    /\ (PORT.set /\ predefined_port # NoPort) =>
         /\ port \in {NoPort, predefined_port}
         /\ bound \in {NoPort, predefined_port}
         /\ \A a \in adverts : a.port = predefined_port /\ bound = predefined_port
         /\ (apc = "ended" /\ bound = NoPort) => (exit_code = 1 /\ adverts = {})
    /\ (~PORT.set /\ bound = NoPort) => exit_code # 1

====
